---------------------------- MODULE Spec2Model ----------------------------
(***************************************************************************)
(* Grust: an in-memory directed graph whose nodes are keyed by the hash of *)
(* their label (src/src/graph.rs), with the traversals of src/src/iter.rs  *)
(* and src/src/search.rs, the helpers and the component partition of       *)
(* src/src/util.rs, and the row layout and diagram of src/src/fmt.rs.      *)
(*                                                                         *)
(* Graph.nodes is a HashMap<u64, Node<T>>: here a function from keys to    *)
(* records [label, edges], edges being the node's HashMap<u64, i64> from   *)
(* target key to weight.  Iteration order of a HashMap or HashSet is not   *)
(* specified: every place the code iterates one, the model branches over   *)
(* all orders.                                                             *)
(***************************************************************************)
EXTENDS Integers, Sequences, FiniteSets, TLC

\* Number of distinct label values the callers use.
NumLabels == 3

Labels == 1..NumLabels

\* Number of nodes of the largest graph that is laid out in rows.
NumNodes == 4

Modes == {"Bredth", "Depth"}

\* lib.rs hash(): a pure function of the label, free of collisions on Labels.
hash(data) == 31 * data + 7

Keys == {hash(l) : l \in Labels}

-----------------------------------------------------------------------------
(* Option<T>, HashMap and sequence helpers *)

\* The record of a call: its name, its arguments and what it returned.
Call(op, args, ret) == [op |-> op, args |-> args, ret |-> ret]

None == [some |-> FALSE]

Some(v) == [some |-> TRUE, val |-> v]

\* HashMap::new()
EmptyMap == [k \in {} |-> 0]

\* HashMap::insert(k, v): adds the entry or overwrites the value under k.
MapInsert(m, k, v) == [x \in (DOMAIN m) \cup {k} |-> IF x = k THEN v ELSE m[x]]

\* HashMap::remove(k): drops the entry under k if there is one.
MapRemove(m, k) == [x \in (DOMAIN m) \ {k} |-> m[x]]

\* Every order in which a HashSet / HashMap with these elements can be iterated.
Orders(S) ==
    {p \in [1..Cardinality(S) -> S] : \A i, j \in 1..Cardinality(S) : i # j => p[i] # p[j]}

Range(s) == {s[i] : i \in DOMAIN s}

Reverse(s) == [i \in 1..Len(s) |-> s[Len(s) + 1 - i]]

-----------------------------------------------------------------------------
(* Node<T> (graph.rs) *)

\* Node::is_adjacent_to
is_adjacent_to(node, to) == hash(to) \in DOMAIN node.edges

\* Node::connect_to: the mutant adds up the weight of an edge that is already there.
connect_to_accumulate(node, to) ==
    LET target == hash(to)
    IN  [node EXCEPT !.edges =
            MapInsert(@, target, IF target \in DOMAIN @ THEN @[target] + 1 ELSE 1)]

\* Node::connect_to
connect_to(node, to) ==
    LET target == hash(to)
    IN  [node EXCEPT !.edges = MapInsert(@, target, 1)]

\* Node::disconnect_from
disconnect_from(node, from) ==
    LET target == hash(from)
    IN  [node EXCEPT !.edges = MapRemove(@, target)]

-----------------------------------------------------------------------------
(* Graph<T>: queries (graph.rs, util.rs) *)

\* Graph::get
get(g, label) ==
    LET key == hash(label)
    IN  IF key \in DOMAIN g THEN Some(g[key]) ELSE None

\* The value a call takes when an unwrap() in it panics.
Panic == [some |-> FALSE, panic |-> TRUE]

\* Graph::get_adjacent: the mutant answers an unknown label with an empty set.
get_adjacent_empty(g, label) ==
    IF ~get(g, label).some
    THEN Some({})
    ELSE Some({g[k].label : k \in DOMAIN get(g, label).val.edges})

\* Graph::get_adjacent: absent for an unknown label, else the labels of the
\* nodes the edge keys name (nodes.get(k).unwrap() panics on a key without node).
get_adjacent(g, label) ==
    IF ~get(g, label).some
    THEN None
    ELSE LET keys == DOMAIN get(g, label).val.edges
         IN  IF \E k \in keys : k \notin DOMAIN g
             THEN Panic
             ELSE Some({g[k].label : k \in keys})

\* Graph::neighbors, used by iter.rs and fmt.rs: the adjacency query of the Store.
neighbors(g, label) == get_adjacent(g, label)

\* Graph::connections, used by search.rs: the adjacency query of the Store.
connections(g, label) == get_adjacent(g, label)

\* Graph::is_adjacent
is_adjacent(g, from, to) ==
    LET node == get(g, from)
    IN  node.some /\ is_adjacent_to(node.val, to)

\* Graph::size
size(g) == Cardinality(DOMAIN g)

\* Graph::iter: the labels of all nodes.
iter_labels(g) == {g[k].label : k \in DOMAIN g}

\* Graph::sinks
sinks(g) == {g[k].label : k \in {x \in DOMAIN g : DOMAIN g[x].edges = {}}}

\* Graph::indegrees: the mutant counts, for every label, the edges that leave
\* its node.
indegrees_outgoing(g) ==
    [l \in iter_labels(g) |-> Cardinality(DOMAIN g[hash(l)].edges)]
\* Graph::indegrees: for every node's label, the number of nodes with an edge to it.
indegrees(g) ==
    [l \in iter_labels(g) |->
        Cardinality({k \in DOMAIN g : hash(l) \in DOMAIN g[k].edges})]

\* Graph::sources
sources(g) == {l \in iter_labels(g) : indegrees(g)[l] = 0}

-----------------------------------------------------------------------------
(* Walk (iter.rs): the work-list traversal, visited check on removal *)

\* The loop at the head of Walk::next, skipping nothing: the mutant hands out
\* the next buffered label whether or not it was produced before.
pop_any(mode, buffer, visited) ==
    IF buffer = << >>
    THEN [found |-> FALSE, buffer |-> buffer]
    ELSE IF mode = "Bredth"
         THEN [found |-> TRUE, next |-> buffer[Len(buffer)],
               buffer |-> SubSeq(buffer, 1, Len(buffer) - 1)]
         ELSE [found |-> TRUE, next |-> Head(buffer), buffer |-> Tail(buffer)]

\* The loop at the head of Walk::next: the mutant takes from the front in
\* either mode.
RECURSIVE pop_unvisited_front(_, _, _)
pop_unvisited_front(mode, buffer, visited) ==
    IF buffer = << >>
    THEN [found |-> FALSE, buffer |-> buffer]
    ELSE IF Head(buffer) \notin visited
         THEN [found |-> TRUE, next |-> Head(buffer), buffer |-> Tail(buffer)]
         ELSE pop_unvisited_front(mode, Tail(buffer), visited)

\* The loop at the head of Walk::next: pop_back (Bredth) or pop_front (Depth)
\* until a label that is not in visited comes out; the buffer running empty
\* ends the walk.
RECURSIVE pop_unvisited(_, _, _)
pop_unvisited(mode, buffer, visited) ==
    IF buffer = << >>
    THEN [found |-> FALSE, buffer |-> buffer]
    ELSE LET next == IF mode = "Bredth" THEN buffer[Len(buffer)] ELSE Head(buffer)
             rest == IF mode = "Bredth"
                     THEN SubSeq(buffer, 1, Len(buffer) - 1)
                     ELSE Tail(buffer)
         IN  IF next \notin visited
             THEN [found |-> TRUE, next |-> next, buffer |-> rest]
             ELSE pop_unvisited(mode, rest, visited)

\* Walk::next: the outcomes [iter, ret] of one pull, one per order in which the
\* neighbors can be pushed to the front of the buffer.
Walk_next(g, w) ==
    LET p == pop_unvisited(w.mode, w.buffer, w.visited)
    IN  IF ~p.found
        THEN {[iter |-> [w EXCEPT !.buffer = p.buffer], ret |-> None]}
        ELSE LET cons == neighbors(g, p.next)
                 seen == w.visited \cup {p.next}
             IN  IF cons.some
                 THEN {[iter |-> [w EXCEPT !.buffer = Reverse(o) \o p.buffer,
                                           !.visited = seen],
                        ret  |-> Some(p.next)] : o \in Orders(cons.val)}
                 ELSE {[iter |-> [w EXCEPT !.buffer = p.buffer, !.visited = seen],
                        ret  |-> Some(p.next)]}

\* Graph::walk
walk(g, start, mode) ==
    IF ~get(g, start).some
    THEN None
    ELSE Some([kind |-> "Walk", mode |-> mode, buffer |-> <<start>>, visited |-> {}])

\* Graph::search: the mutant seeds the buffer with one source only.
search_one_root(g, mode) ==
    {[kind |-> "Walk", mode |-> mode, buffer |-> IF sources(g) = {} THEN << >> ELSE <<o[1]>>,
      visited |-> {}] : o \in Orders(sources(g))}

\* Graph::search (and bfs(), dfs()): every source is pushed to the front.
search(g, mode) ==
    {[kind |-> "Walk", mode |-> mode, buffer |-> Reverse(o), visited |-> {}]
        : o \in Orders(sources(g))}

\* Every sequence a Walk can produce when it is drained (Iterator::collect).
RECURSIVE Walk_collect(_, _)
Walk_collect(g, w) ==
    UNION {IF o.ret.some
           THEN {<<o.ret.val>> \o r : r \in Walk_collect(g, o.iter)}
           ELSE {<< >>} : o \in Walk_next(g, w)}

-----------------------------------------------------------------------------
(* Iter (search.rs): the work-list traversal, visited check on insertion *)

\* Graph::search(start, mode) of search.rs (and its bfs(start), dfs(start)).
Iter_search(g, start, mode) ==
    [kind |-> "Iter", mode |-> mode, buffer |-> <<start>>, visited |-> {hash(start)}]

\* The for loop of Iter::next: the mutant pushes every connection, visited or
\* not.
RECURSIVE Iter_push_unchecked(_, _, _)
Iter_push_unchecked(w, o, i) ==
    IF i > Len(o)
    THEN w
    ELSE Iter_push_unchecked([w EXCEPT !.visited = @ \cup {hash(o[i])},
                                       !.buffer = <<o[i]>> \o @], o, i + 1)

\* The for loop of Iter::next over the connections in the order o.
RECURSIVE Iter_push(_, _, _)
Iter_push(w, o, i) ==
    IF i > Len(o)
    THEN w
    ELSE LET key == hash(o[i])
         IN  IF key \notin w.visited
             THEN Iter_push([w EXCEPT !.visited = @ \cup {key},
                                      !.buffer = <<o[i]>> \o @], o, i + 1)
             ELSE Iter_push(w, o, i + 1)

\* Iter::next
Iter_next(g, w) ==
    IF w.buffer = << >>
    THEN {[iter |-> w, ret |-> None]}
    ELSE LET next == IF w.mode = "Bredth" THEN w.buffer[Len(w.buffer)] ELSE Head(w.buffer)
             rest == IF w.mode = "Bredth"
                     THEN SubSeq(w.buffer, 1, Len(w.buffer) - 1)
                     ELSE Tail(w.buffer)
             w1   == [w EXCEPT !.buffer = rest]
             cons == connections(g, next)
         IN  IF cons.some
             THEN {[iter |-> Iter_push(w1, o, 1), ret |-> Some(next)] : o \in Orders(cons.val)}
             ELSE {[iter |-> w1, ret |-> Some(next)]}

-----------------------------------------------------------------------------
(* Graph<T>: mutation (graph.rs) *)

\* Graph::new
new == EmptyMap

\* Graph::add_node
add_node(g, node) == MapInsert(g, hash(node.label), node)

\* Graph::add: the mutant leaves a node that is already there as it is.
add_if_absent(g, label) ==
    IF hash(label) \in DOMAIN g
    THEN g
    ELSE add_node(g, [label |-> label, edges |-> EmptyMap])

\* Graph::add
add(g, label) == add_node(g, [label |-> label, edges |-> EmptyMap])

\* Graph::init: a new graph to which each of the labels is added in turn.
RECURSIVE init(_)
init(labels) ==
    IF labels = << >>
    THEN new
    ELSE add(init(SubSeq(labels, 1, Len(labels) - 1)), labels[Len(labels)])

\* Node::connect_to called on nodes of the graph for every pair (from, to) of
\* E, with no check of any kind: the way code of the crate gives a graph
\* edges that Graph::connect refuses.
connect_all(g, E) ==
    [k \in DOMAIN g |->
        [g[k] EXCEPT !.edges = [t \in {hash(e[2]) : e \in {d \in E : d[1] = g[k].label}} |-> 1]]]

\* Graph::remove: the mutant looks the node up without taking it out of the map.
remove_keep_node(g, label) ==
    LET key == hash(label)
    IN  IF key \notin DOMAIN g
        THEN [graph |-> g, ret |-> None]
        ELSE [graph |-> [k \in DOMAIN g |-> IF k = key THEN g[k] ELSE disconnect_from(g[k], label)],
              ret   |-> Some(g[key])]

\* Graph::remove: the mutant forgets the edges of the other nodes.
remove_keep_edges(g, label) ==
    LET key == hash(label)
    IN  IF key \notin DOMAIN g
        THEN [graph |-> g, ret |-> None]
        ELSE [graph |-> MapRemove(g, key), ret |-> Some(g[key])]

\* Graph::remove
remove(g, label) ==
    LET key == hash(label)
    IN  IF key \notin DOMAIN g
        THEN [graph |-> g, ret |-> None]
        ELSE LET rest == MapRemove(g, key)
             IN  [graph |-> [k \in DOMAIN rest |-> disconnect_from(rest[k], label)],
                  ret   |-> Some(g[key])]

\* Graph::connect: the mutant never looks for a path back.
connect_unchecked(g, from, to) ==
    LET a == hash(from)
        b == hash(to)
    IN  IF a = b \/ a \notin DOMAIN g \/ b \notin DOMAIN g
        THEN {[graph |-> g, ret |-> FALSE]}
        ELSE {[graph |-> [g EXCEPT ![a] = connect_to(@, to)], ret |-> TRUE]}

\* Graph::connect: the mutant looks for the reverse edge only, not for a path.
connect_direct(g, from, to) ==
    LET a == hash(from)
        b == hash(to)
    IN  IF a = b \/ a \notin DOMAIN g \/ b \notin DOMAIN g \/ is_adjacent(g, to, from)
        THEN {[graph |-> g, ret |-> FALSE]}
        ELSE {[graph |-> [g EXCEPT ![a] = connect_to(@, to)], ret |-> TRUE]}

\* Graph::connect: the mutant does not ask whether `to` is a node.
connect_missing_target(g, from, to) ==
    LET a == hash(from)
        b == hash(to)
    IN  IF a = b \/ a \notin DOMAIN g
        THEN {[graph |-> g, ret |-> FALSE]}
        ELSE IF b \notin DOMAIN g
        THEN {[graph |-> [g EXCEPT ![a] = connect_to(@, to)], ret |-> TRUE]}
        ELSE {IF \E i \in DOMAIN run : run[i] = from
              THEN [graph |-> g, ret |-> FALSE]
              ELSE [graph |-> [g EXCEPT ![a] = connect_to(@, to)], ret |-> TRUE]
                : run \in Walk_collect(g, walk(g, to, "Depth").val)}

\* Graph::connect: the outcomes [graph, ret], one per run of the depth-first
\* walk from `to` that looks for `from`.
connect(g, from, to) ==
    LET a == hash(from)
        b == hash(to)
    IN  IF a = b
        THEN {[graph |-> g, ret |-> FALSE]}
        ELSE IF a \notin DOMAIN g \/ b \notin DOMAIN g
        THEN {[graph |-> g, ret |-> FALSE]}
        ELSE {IF \E i \in DOMAIN run : run[i] = from
              THEN [graph |-> g, ret |-> FALSE]
              ELSE [graph |-> [g EXCEPT ![a] = connect_to(@, to)], ret |-> TRUE]
                : run \in Walk_collect(g, walk(g, to, "Depth").val)}

\* Graph::disconnect: the mutant reports whether an edge was removed.
disconnect_removed(g, from, to) ==
    LET a == hash(from)
        b == hash(to)
    IN  IF b \in DOMAIN g /\ a \in DOMAIN g
        THEN [graph |-> [g EXCEPT ![a] = disconnect_from(@, to)],
              ret   |-> b \in DOMAIN g[a].edges]
        ELSE [graph |-> g, ret |-> FALSE]

\* Graph::disconnect
disconnect(g, from, to) ==
    LET a  == hash(from)
        b  == hash(to)
        bb == b \in DOMAIN g
    IN  IF bb /\ a \in DOMAIN g
        THEN [graph |-> [g EXCEPT ![a] = disconnect_from(@, to)], ret |-> TRUE]
        ELSE [graph |-> g, ret |-> FALSE]

-----------------------------------------------------------------------------
(* Ordering (iter.rs): topological order by in-degree reduction *)

\* The for loop of Ordering::new over the neighbors in the order o, the mutant
\* pushing every neighbor whether or not its degree has reached zero.
RECURSIVE Ordering_visit_always(_, _, _)
Ordering_visit_always(st, o, i) ==
    IF i > Len(o)
    THEN st
    ELSE Ordering_visit_always(
            [st EXCEPT !.degrees[o[i]] = @ - 1, !.next = Append(@, o[i])], o, i + 1)

\* The for loop of Ordering::new over the neighbors in the order o: the
\* neighbor's degree is decremented and the neighbor pushed when it reaches 0.
RECURSIVE Ordering_visit(_, _, _)
Ordering_visit(st, o, i) ==
    IF i > Len(o)
    THEN st
    ELSE LET degree == st.degrees[o[i]] - 1
         IN  Ordering_visit(
                [st EXCEPT !.degrees[o[i]] = degree,
                           !.next = IF degree = 0 THEN Append(@, o[i]) ELSE @],
                o, i + 1)

\* The while loop of Ordering::new: pops the last label of next, appends it to
\* the result and visits its neighbors, in every order a HashSet can give.
RECURSIVE Ordering_loop(_, _)
Ordering_loop(g, st) ==
    IF st.next = << >>
    THEN {st.result}
    ELSE LET label == st.next[Len(st.next)]
             st1   == [st EXCEPT !.next = SubSeq(@, 1, Len(@) - 1),
                                 !.result = Append(@, label)]
         IN  UNION {Ordering_loop(g, Ordering_visit(st1, o, 1))
                        : o \in Orders(neighbors(g, label).val)}

\* Ordering::new: every vector the ordering of g can be.
Ordering_new(g) ==
    UNION {Ordering_loop(g, [result |-> << >>, degrees |-> indegrees(g), next |-> o])
                : o \in Orders(sources(g))}

-----------------------------------------------------------------------------
(* Parts (util.rs): the consuming iterator over the components of a graph *)

\* disjoint.insert(k, start_key) for every key k a walk produced: a key that
\* was tagged before takes the new tag.
Parts_insert(disjoint, keys, start_key) ==
    [x \in (DOMAIN disjoint) \cup keys |-> IF x \in keys THEN start_key ELSE disjoint[x]]

\* The for loop of Parts::new over the sources in the order o: every label the
\* depth-first walk from a source produces is tagged with the key of that source.
RECURSIVE Parts_tag(_, _, _, _)
Parts_tag(g, disjoint, o, i) ==
    IF i > Len(o)
    THEN {disjoint}
    ELSE LET start_key == hash(o[i])
         IN  UNION {Parts_tag(g, Parts_insert(disjoint, {hash(l) : l \in Range(run)}, start_key),
                              o, i + 1)
                        : run \in Walk_collect(g, walk(g, o[i], "Depth").val)}

\* Graph::partition, Parts::new: every Parts the sources' iteration order can give.
Parts_new(g) ==
    {[kind |-> "Parts", graph |-> g, disjoint |-> d]
        : d \in UNION {Parts_tag(g, EmptyMap, o, 1) : o \in Orders(sources(g))}}

\* The for loop of Parts::next over the keys of part, the mutant copying each
\* node into the component and leaving it in the source graph.
RECURSIVE Parts_move_copy(_, _, _, _)
Parts_move_copy(src, dst, o, i) ==
    IF i > Len(o)
    THEN [graph |-> src, ret |-> Some(dst)]
    ELSE IF o[i] \notin DOMAIN src
         THEN [graph |-> src, ret |-> None]
         ELSE Parts_move_copy(src, add_node(dst, src[o[i]]), o, i + 1)

\* The for loop of Parts::next over the keys of part in the order o: each node
\* is removed from the source graph and added to the component; a key without
\* a node ends the call with None (the ? operator), the nodes moved so far lost.
RECURSIVE Parts_move(_, _, _, _)
Parts_move(src, dst, o, i) ==
    IF i > Len(o)
    THEN [graph |-> src, ret |-> Some(dst)]
    ELSE IF o[i] \notin DOMAIN src
         THEN [graph |-> src, ret |-> None]
         ELSE Parts_move(MapRemove(src, o[i]), add_node(dst, src[o[i]]), o, i + 1)

\* Graph::pick: the first label of the graph's iteration, any of its labels.
pick(g) == IF DOMAIN g = {} THEN {None} ELSE {Some(l) : l \in iter_labels(g)}

\* Parts::next, the mutant taking for part the entries whose key, not whose
\* tag, is the picked node's tag.
Parts_next_by_key(p) ==
    UNION {IF ~next.some
           THEN {[iter |-> p, ret |-> None]}
           ELSE LET next_key == hash(next.val)
                IN  IF next_key \notin DOMAIN p.disjoint
                    THEN {[iter |-> p, ret |-> Panic]}
                    ELSE LET parent_key == p.disjoint[next_key]
                             part == {k \in DOMAIN p.disjoint : k = parent_key}
                             rest == (DOMAIN p.disjoint) \ part
                         IN  {LET m == Parts_move(p.graph, new, o, 1)
                              IN  [iter |-> [p EXCEPT !.graph = m.graph,
                                                      !.disjoint = IF m.ret.some
                                                                   THEN [k \in rest |-> p.disjoint[k]]
                                                                   ELSE @],
                                   ret  |-> m.ret] : o \in Orders(part)}
              : next \in pick(p.graph)}

\* Parts::next: the outcomes [iter, ret] of one pull.  The picked node's tag
\* selects part, the entries of disjoint with that tag; their nodes are moved
\* into a new graph and disjoint keeps the rest.
Parts_next(p) ==
    UNION {IF ~next.some
           THEN {[iter |-> p, ret |-> None]}
           ELSE LET next_key == hash(next.val)
                IN  IF next_key \notin DOMAIN p.disjoint
                    THEN {[iter |-> p, ret |-> Panic]}
                    ELSE LET parent_key == p.disjoint[next_key]
                             part == {k \in DOMAIN p.disjoint : p.disjoint[k] = parent_key}
                             rest == (DOMAIN p.disjoint) \ part
                         IN  {LET m == Parts_move(p.graph, new, o, 1)
                              IN  [iter |-> [p EXCEPT !.graph = m.graph,
                                                      !.disjoint = IF m.ret.some
                                                                   THEN [k \in rest |-> p.disjoint[k]]
                                                                   ELSE @],
                                   ret  |-> m.ret] : o \in Orders(part)}
              : next \in pick(p.graph)}
-----------------------------------------------------------------------------
(* Row, Element and the diagram (fmt.rs) *)

\* enum Element
Element_Empty == <<"Empty">>

Element_Node == <<"Node">>

Element_Connector(l) == <<"Connector", l>>

is_node(el) == el = Element_Node

is_connector(el) == el[1] = "Connector"

\* struct Row
Row(label, elements) == [label |-> label, elements |-> elements]

\* Row::index_of: the first column, counted from 0, that holds the Node slot of
\* the row's own label or a Connector to the label.
index_of(row, label) ==
    LET hits == {i \in DOMAIN row.elements :
                    \/ is_node(row.elements[i]) /\ label = row.label
                    \/ row.elements[i] = Element_Connector(label)}
    IN  IF hits = {}
        THEN None
        ELSE Some((CHOOSE i \in hits : \A j \in hits : i <= j) - 1)

\* [T]::join: the pieces with sep between each two.
RECURSIVE Join(_, _)
Join(pieces, sep) ==
    IF pieces = << >>
    THEN << >>
    ELSE IF Len(pieces) = 1
         THEN pieces[1]
         ELSE pieces[1] \o sep \o Join(Tail(pieces), sep)

\* The separator both joins of fmt.rs are given: r"\n", a backslash and an n.
RawNewline == <<"\\", "n">>

\* Display of a label: the text of the label, one character per label here.
to_string(label) == <<ToString(label)>>

\* Display for Row: a blank for Empty, the label for Node, a bar for Connector,
\* joined by blanks.  Text is a sequence of characters.
Row_to_string(row) ==
    Join([i \in DOMAIN row.elements |->
             IF row.elements[i] = Element_Empty
             THEN <<" ">>
             ELSE IF is_node(row.elements[i]) THEN to_string(row.label) ELSE <<"|">>],
         <<" ">>)

\* The match of get_rows on an element of the previous row: what the column
\* holds in the next row, None leaving the column free.  The mutant carries a
\* Connector on even into the row of the label it names.
Row_next_element_carry(prev_element, label, placed_node) ==
    IF prev_element = Element_Empty
    THEN IF placed_node THEN None ELSE Some(Element_Node)
    ELSE IF is_connector(prev_element)
         THEN Some(prev_element)
         ELSE None

\* The match of get_rows on an element of the previous row: what the column
\* holds in the next row, None leaving the column free.
Row_next_element(prev_element, label, placed_node) ==
    IF prev_element = Element_Empty
    THEN IF placed_node THEN None ELSE Some(Element_Node)
    ELSE IF is_connector(prev_element)
         THEN IF prev_element[2] = label
              THEN IF placed_node THEN None ELSE Some(Element_Node)
              ELSE Some(prev_element)
         ELSE None

\* The state of the loop of get_rows over the previous row's elements.
RowState(elements, placed_node, prev_neighbors) ==
    [elements |-> elements, placed_node |-> placed_node, prev_neighbors |-> prev_neighbors]

\* The body of the loop of get_rows, the mutant not recording that it placed
\* the Node slot in a free column.
RECURSIVE Row_fill_unplaced(_, _, _, _)
Row_fill_unplaced(st, prev_elements, label, i) ==
    IF i > Len(prev_elements)
    THEN st
    ELSE LET next_element == Row_next_element(prev_elements[i], label, st.placed_node)
             takes  == ~next_element.some /\ st.placed_node /\ st.prev_neighbors # << >>
             new_element ==
                 IF next_element.some
                 THEN next_element.val
                 ELSE IF st.placed_node
                      THEN IF takes
                           THEN Element_Connector(Head(st.prev_neighbors))
                           ELSE Element_Empty
                      ELSE Element_Node
             placed == st.placed_node \/ (next_element.some /\ is_node(next_element.val))
             rest   == IF takes THEN Tail(st.prev_neighbors) ELSE st.prev_neighbors
         IN  Row_fill_unplaced(
                RowState(Append(st.elements, new_element)
                             \o (IF placed THEN << >> ELSE <<Element_Node>>)
                             \o [j \in DOMAIN rest |-> Element_Connector(rest[j])],
                         placed, << >>),
                prev_elements, label, i + 1)

\* The body of the loop of get_rows, the mutant without the while loop that
\* appends the previous label's neighbors still waiting.
RECURSIVE Row_fill_no_drain(_, _, _, _)
Row_fill_no_drain(st, prev_elements, label, i) ==
    IF i > Len(prev_elements)
    THEN st
    ELSE LET next_element == Row_next_element(prev_elements[i], label, st.placed_node)
             takes  == ~next_element.some /\ st.placed_node /\ st.prev_neighbors # << >>
             new_element ==
                 IF next_element.some
                 THEN next_element.val
                 ELSE IF st.placed_node
                      THEN IF takes
                           THEN Element_Connector(Head(st.prev_neighbors))
                           ELSE Element_Empty
                      ELSE Element_Node
             placed == \/ st.placed_node
                       \/ ~next_element.some
                       \/ is_node(next_element.val)
             rest   == IF takes THEN Tail(st.prev_neighbors) ELSE st.prev_neighbors
         IN  Row_fill_no_drain(
                RowState(Append(st.elements, new_element)
                             \o (IF placed THEN << >> ELSE <<Element_Node>>),
                         placed, rest),
                prev_elements, label, i + 1)

\* The body of the loop of get_rows over the previous row's elements, from the
\* i-th on.  Each turn pushes the column's element (the carried one, or in a
\* free column the Node slot if it is not placed yet, else the next waiting
\* neighbor of the previous label, else Empty); then, still inside the loop,
\* it pushes a Node slot if none is placed (placed_node stays false) and a
\* Connector for every neighbor still waiting.
RECURSIVE Row_fill(_, _, _, _)
Row_fill(st, prev_elements, label, i) ==
    IF i > Len(prev_elements)
    THEN st
    ELSE LET next_element == Row_next_element(prev_elements[i], label, st.placed_node)
             takes  == ~next_element.some /\ st.placed_node /\ st.prev_neighbors # << >>
             new_element ==
                 IF next_element.some
                 THEN next_element.val
                 ELSE IF st.placed_node
                      THEN IF takes
                           THEN Element_Connector(Head(st.prev_neighbors))
                           ELSE Element_Empty
                      ELSE Element_Node
             placed == \/ st.placed_node
                       \/ ~next_element.some
                       \/ is_node(next_element.val)
             rest   == IF takes THEN Tail(st.prev_neighbors) ELSE st.prev_neighbors
         IN  Row_fill(
                RowState(Append(st.elements, new_element)
                             \o (IF placed THEN << >> ELSE <<Element_Node>>)
                             \o [j \in DOMAIN rest |-> Element_Connector(rest[j])],
                         placed, << >>),
                prev_elements, label, i + 1)

\* The for loop of get_rows over the ordering o, from its i-th label on: every
\* vector of rows it can build, one per order in which the previous label's
\* neighbors can come; Panic where neighbors(..).unwrap() fails.
RECURSIVE Rows_build(_, _, _, _)
Rows_build(g, rows, o, i) ==
    IF i > Len(o)
    THEN {Some(rows)}
    ELSE IF rows = << >>
         THEN Rows_build(g, <<Row(o[i], <<Element_Node>>)>>, o, i + 1)
         ELSE LET prev_row == rows[Len(rows)]
                  cons     == neighbors(g, prev_row.label)
              IN  IF ~cons.some
                  THEN {Panic}
                  ELSE UNION {Rows_build(g,
                                  Append(rows,
                                      Row(o[i],
                                          Row_fill(RowState(<< >>, FALSE, prev_neighbors),
                                                   prev_row.elements, o[i], 1).elements)),
                                  o, i + 1)
                                 : prev_neighbors \in Orders(cons.val \ {o[i]})}

\* Graph::get_rows: every outcome, Some(rows) or Panic.
get_rows(g) == UNION {Rows_build(g, << >>, o, 1) : o \in Ordering_new(g)}

\* Graph::draw_connector: the body is empty, the grid stays as it is.
draw_connector(grid, from, to) == grid

\* draw_connectors for one column of prev: the targets in the order given, each
\* looked up in next (unwrap) and drawn.
RECURSIVE draw_targets(_, _, _, _)
draw_targets(grid, next, from, targets) ==
    IF targets = << >>
    THEN Some(grid)
    ELSE LET to == index_of(next, Head(targets))
         IN  IF ~to.some
             THEN Panic
             ELSE draw_targets(draw_connector(grid, from, to.val), next, from, Tail(targets))

\* The for loop of draw_connectors over the columns of prev, from column
\* `from` on: a Connector is drawn to its label's column in next, the Node slot
\* to the column of every neighbor of prev's label, in any order.
RECURSIVE draw_columns(_, _, _, _, _)
draw_columns(g, grid, prev, next, from) ==
    IF from >= Len(prev.elements)
    THEN {Some(Join(grid, RawNewline))}
    ELSE LET el   == prev.elements[from + 1]
             cons == neighbors(g, prev.label)
         IN  IF is_node(el) /\ ~cons.some
             THEN {Panic}
             ELSE UNION {LET r == draw_targets(grid, next, from, targets)
                         IN  IF r.some
                             THEN draw_columns(g, r.val, prev, next, from + 1)
                             ELSE {Panic}
                            : targets \in IF is_connector(el)
                                          THEN {<<el[2]>>}
                                          ELSE IF is_node(el)
                                               THEN Orders(cons.val)
                                               ELSE {<< >>}}

\* Graph::draw_connectors: every outcome, Some(text) or Panic.
draw_connectors(g, prev, next) == draw_columns(g, << >>, prev, next, 0)

\* What a call of diagram() went through: the rows, the vector of pieces, and
\* the value returned.
Drawn(rows, result, ret) == [rows |-> rows, result |-> result, ret |-> ret]

\* The while loop of diagram(), the mutant leaving out the push of the last row.
RECURSIVE diagram_loop_no_last(_, _, _, _)
diagram_loop_no_last(g, rows, result, i) ==
    IF i + 1 < Len(rows)
    THEN UNION {IF block.some
                THEN diagram_loop_no_last(g, rows,
                         result \o <<Row_to_string(rows[i + 1]), block.val>>, i + 1)
                ELSE {Drawn(rows, result, Panic)}
                   : block \in draw_connectors(g, rows[i + 1], rows[i + 2])}
    ELSE IF i >= Len(rows)
         THEN {Drawn(rows, result, Panic)}
         ELSE {Drawn(rows, result, Some(Join(result, RawNewline)))}

\* The while loop of diagram() from index i (counted from 0) and the two lines
\* after it: each row but the last is pushed with the connectors to the next
\* row, then rows[i] is pushed (a panic when there is no row) and the pieces
\* are joined.
RECURSIVE diagram_loop(_, _, _, _)
diagram_loop(g, rows, result, i) ==
    IF i + 1 < Len(rows)
    THEN UNION {IF block.some
                THEN diagram_loop(g, rows,
                         result \o <<Row_to_string(rows[i + 1]), block.val>>, i + 1)
                ELSE {Drawn(rows, result, Panic)}
                   : block \in draw_connectors(g, rows[i + 1], rows[i + 2])}
    ELSE IF i >= Len(rows)
         THEN {Drawn(rows, result, Panic)}
         ELSE LET pieces == Append(result, Row_to_string(rows[i + 1]))
              IN  {Drawn(rows, pieces, Some(Join(pieces, RawNewline)))}

\* Graph::diagram: every outcome.
diagram(g) ==
    UNION {IF rows.some
           THEN diagram_loop(g, rows.val, << >>, 0)
           ELSE {Drawn(<< >>, << >>, Panic)} : rows \in get_rows(g)}
-----------------------------------------------------------------------------
(* The lookups of a neighbor's node by key (util.rs, iter.rs) *)

\* Some edge of g names a key that has no node: nodes.get(key).unwrap() panics.
dangling(g) == \E k \in DOMAIN g : \E key \in DOMAIN g[k].edges : key \notin DOMAIN g

\* Graph::indegrees as a call: the map of degrees, or the panic of its unwrap().
indegrees_call(g) == IF dangling(g) THEN Panic ELSE Some(indegrees(g))

\* Graph::edges, drained: the pairs (from, to) EdgeIter produces, or the panic
\* of its unwrap().
edges(g) ==
    IF dangling(g)
    THEN Panic
    ELSE Some(UNION {{<<g[k].label, g[key].label>> : key \in DOMAIN g[k].edges}
                        : k \in DOMAIN g})

-----------------------------------------------------------------------------
(* The state: one Graph, the call made last, and the iterator borrowed from it *)

VARIABLES
    nodes,      \* Graph.nodes
    call,       \* the last call made: [op, args, ret]
    before,     \* Graph.nodes as it was when the last call was made
    iter,       \* the live Walk / Iter borrowed from the graph, or NoIter
    seed,       \* the labels the live iterator was seeded with
    produced,   \* the labels the live iterator has produced so far
    snapshot    \* [stage, label, graph]: the graph as it was before add(label),
                \* kept while the calls made last are add(label) ("added") or
                \* add(label) and then remove(label) ("removed"); after
                \* diagram(), [stage, rows, result]: the rows it laid out and
                \* the pieces it joined

vars == <<nodes, call, before, iter, seed, produced, snapshot>>

NoIter == [kind |-> "none"]

NoSnapshot == [stage |-> "none"]

Init ==
    /\ nodes = new
    /\ call = Call("new", << >>, TRUE)
    /\ before = new
    /\ iter = NoIter
    /\ seed = {}
    /\ produced = << >>
    /\ snapshot = NoSnapshot

\* A mutation needs the graph exclusively: a live iterator is dropped first.
DropIter ==
    /\ iter' = NoIter
    /\ seed' = {}
    /\ produced' = << >>

Add ==
    \E label \in Labels :
        /\ nodes' = add(nodes, label)
        /\ call' = Call("add", <<label>>, TRUE)
        /\ before' = nodes
        /\ snapshot' = [stage |-> "added", label |-> label, graph |-> nodes]
        /\ DropIter

Remove ==
    \E label \in Labels :
        LET r == remove(nodes, label)
        IN  /\ nodes' = r.graph
            /\ call' = Call("remove", <<label>>, r.ret)
            /\ before' = nodes
            /\ snapshot' = IF snapshot.stage = "added" /\ snapshot.label = label
                           THEN [snapshot EXCEPT !.stage = "removed"]
                           ELSE NoSnapshot
            /\ DropIter

Connect ==
    \E from \in Labels, to \in Labels :
        \E r \in connect(nodes, from, to) :
            /\ nodes' = r.graph
            /\ call' = Call("connect", <<from, to>>, r.ret)
            /\ before' = nodes
            /\ snapshot' = NoSnapshot
            /\ DropIter

Disconnect ==
    \E from \in Labels, to \in Labels :
        LET r == disconnect(nodes, from, to)
        IN  /\ nodes' = r.graph
            /\ call' = Call("disconnect", <<from, to>>, r.ret)
            /\ before' = nodes
            /\ snapshot' = NoSnapshot
            /\ DropIter

\* What a read-only call leaves: the graph as it is.  The caller is done with
\* an iterator before it makes another call (a query leaves the iterator as it
\* is, so interleaving the two shows nothing new).
Query ==
    /\ before' = nodes
    /\ snapshot' = NoSnapshot
    /\ DropIter
    /\ UNCHANGED nodes

GetAdjacent ==
    \E label \in Labels :
        /\ call' = Call("get_adjacent", <<label>>, get_adjacent(nodes, label))
        /\ Query

IsAdjacent ==
    \E from \in Labels, to \in Labels :
        /\ call' = Call("is_adjacent", <<from, to>>, is_adjacent(nodes, from, to))
        /\ Query

GetOrdering ==
    \E result \in Ordering_new(nodes) :
        /\ call' = Call("ordering", << >>, result)
        /\ Query

\* What the construction of an iterator leaves: the graph as it is; the new
\* iterator replaces the one the caller held.
Begin ==
    /\ before' = nodes
    /\ snapshot' = NoSnapshot
    /\ produced' = << >>
    /\ UNCHANGED nodes

StartWalk ==
    \E start \in Labels, mode \in Modes :
        LET w == walk(nodes, start, mode)
        IN  /\ call' = Call("walk", <<start, mode>>, w.some)
            /\ iter' = IF w.some THEN w.val ELSE NoIter
            /\ seed' = IF w.some THEN {start} ELSE {}
            /\ Begin

StartSearch ==
    \E mode \in Modes :
        \E w \in search(nodes, mode) :
            /\ call' = Call("search", <<mode>>, TRUE)
            /\ iter' = w
            /\ seed' = sources(nodes)
            /\ Begin

StartIterSearch ==
    \E start \in Labels, mode \in Modes :
        /\ call' = Call("search_from", <<start, mode>>, TRUE)
        /\ iter' = Iter_search(nodes, start, mode)
        /\ seed' = {start}
        /\ Begin

\* One pull of the live iterator.
Pull ==
    /\ iter.kind # "none"
    /\ \E r \in IF iter.kind = "Walk" THEN Walk_next(nodes, iter) ELSE Iter_next(nodes, iter) :
        /\ iter' = r.iter
        /\ call' = Call("next", << >>, r.ret)
        /\ produced' = IF r.ret.some THEN Append(produced, r.ret.val) ELSE produced
    /\ before' = nodes
    /\ snapshot' = NoSnapshot
    /\ UNCHANGED <<nodes, seed>>

Next ==
    \/ Add
    \/ Remove
    \/ Connect
    \/ Disconnect
    \/ GetAdjacent
    \/ IsAdjacent
    \/ GetOrdering
    \/ StartWalk
    \/ StartSearch
    \/ StartIterSearch
    \/ Pull

Spec == Init /\ [][Next]_vars

-----------------------------------------------------------------------------
(* The helpers of util.rs, called on the same graph *)

GetSources ==
    /\ call' = Call("sources", << >>, sources(nodes))
    /\ Query

GetSinks ==
    /\ call' = Call("sinks", << >>, sinks(nodes))
    /\ Query

\* partition() consumes the graph it is called on: the caller partitions a
\* clone (as the tests of util.rs do) and keeps the graph.
Partition ==
    \E p \in Parts_new(nodes) :
        /\ call' = Call("partition", << >>, TRUE)
        /\ iter' = p
        /\ seed' = {}
        /\ Begin

\* One pull of the live Parts: a component, or None.
PartsPull ==
    /\ iter.kind = "Parts"
    /\ \E r \in Parts_next(iter) :
        /\ iter' = r.iter
        /\ call' = Call("parts_next", << >>, r.ret)
        /\ produced' = IF r.ret.some THEN Append(produced, r.ret.val) ELSE produced
    /\ before' = nodes
    /\ snapshot' = NoSnapshot
    /\ UNCHANGED <<nodes, seed>>

NextUtil ==
    \/ Add
    \/ Remove
    \/ Connect
    \/ Disconnect
    \/ GetSources
    \/ GetSinks
    \/ Partition
    \/ PartsPull

SpecUtil == Init /\ [][NextUtil]_vars

-----------------------------------------------------------------------------
(* The layout of fmt.rs, on graphs built the way its tests build them:      *)
(* Graph::init over a range of labels, then connect calls.  The edges lead  *)
(* from a smaller to a larger label, which gives every acyclic shape on the *)
(* nodes; the order in which the code meets the labels is left open by the  *)
(* hash maps it iterates, and all orders are followed.  A test lays its     *)
(* graph out once, when it has built it.                                   *)

InitLayout ==
    \E n \in 0..NumNodes :
        /\ nodes = init([i \in 1..n |-> i])
        /\ call = Call("init", <<n>>, TRUE)
        /\ before = new
        /\ iter = NoIter
        /\ seed = {}
        /\ produced = << >>
        /\ snapshot = NoSnapshot

\* The graph is still being built: nothing has been laid out yet.
Building == call.op \in {"init", "connect"}

ConnectForward ==
    /\ Building
    /\ \E from \in 1..NumNodes, to \in 1..NumNodes :
        /\ from < to
        /\ \E r \in connect(nodes, from, to) :
            /\ nodes' = r.graph
            /\ call' = Call("connect", <<from, to>>, r.ret)
    /\ before' = nodes
    /\ snapshot' = NoSnapshot
    /\ DropIter

GetRows ==
    /\ Building
    /\ \E rows \in get_rows(nodes) : call' = Call("get_rows", << >>, rows)
    /\ Query

\* diagram(): the call returns the text; the rows and the pieces it joined are
\* kept beside it.
Diagram ==
    /\ Building
    /\ \E d \in diagram(nodes) :
        /\ call' = Call("diagram", << >>, d.ret)
        /\ snapshot' = [stage |-> "diagram", rows |-> d.rows, result |-> d.result]
    /\ before' = nodes
    /\ DropIter
    /\ UNCHANGED nodes

NextLayout ==
    \/ ConnectForward
    \/ GetRows
    \/ Diagram

SpecLayout == InitLayout /\ [][NextLayout]_vars

-----------------------------------------------------------------------------
(* The Store on a graph made by Graph::init from a sequence of labels, which *)
(* may name a label more than once.                                          *)

\* The longest sequence of labels given to Graph::init.
InitLen == 3

\* The sequences of elements of S of length n or less.
RECURSIVE SeqsUpTo(_, _)
SeqsUpTo(S, n) ==
    IF n = 0
    THEN {<< >>}
    ELSE LET shorter == SeqsUpTo(S, n - 1)
         IN  shorter \cup {Append(s, x) : s \in shorter, x \in S}

InitStore ==
    \E labels \in SeqsUpTo(Labels, InitLen) :
        /\ nodes = init(labels)
        /\ call = Call("init", <<labels>>, TRUE)
        /\ before = new
        /\ iter = NoIter
        /\ seed = {}
        /\ produced = << >>
        /\ snapshot = NoSnapshot

GetIndegrees ==
    /\ call' = Call("indegrees", << >>, indegrees_call(nodes))
    /\ Query

GetEdges ==
    /\ call' = Call("edges", << >>, edges(nodes))
    /\ Query

NextStore ==
    \/ Add
    \/ Remove
    \/ Connect
    \/ Disconnect
    \/ GetAdjacent
    \/ GetIndegrees
    \/ GetEdges

SpecStore == InitStore /\ [][NextStore]_vars

-----------------------------------------------------------------------------
(* The traversals on graphs built the way the tests of iter.rs and search.rs *)
(* build them: Graph::init over a range of labels, then connect calls, then  *)
(* one traversal that is pulled until it ends.                               *)

TraverseWalk ==
    /\ Building
    /\ \E start \in 1..NumNodes, mode \in Modes :
        LET w == walk(nodes, start, mode)
        IN  /\ call' = Call("walk", <<start, mode>>, w.some)
            /\ iter' = IF w.some THEN w.val ELSE NoIter
            /\ seed' = IF w.some THEN {start} ELSE {}
    /\ Begin

TraverseSearch ==
    /\ Building
    /\ \E mode \in Modes :
        \E w \in search(nodes, mode) :
            /\ call' = Call("search", <<mode>>, TRUE)
            /\ iter' = w
    /\ seed' = sources(nodes)
    /\ Begin

TraverseIterSearch ==
    /\ Building
    /\ \E start \in 1..NumNodes, mode \in Modes :
        /\ call' = Call("search_from", <<start, mode>>, TRUE)
        /\ iter' = Iter_search(nodes, start, mode)
        /\ seed' = {start}
    /\ Begin

NextTraverse ==
    \/ ConnectForward
    \/ TraverseWalk
    \/ TraverseSearch
    \/ TraverseIterSearch
    \/ Pull

SpecTraverse == InitLayout /\ [][NextTraverse]_vars

-----------------------------------------------------------------------------
(* The traversals on an adjacency relation that Graph::connect would refuse: *)
(* the nodes of Graph::init, and between them any edges but self-loops, put  *)
(* in by Node::connect_to.                                                   *)

\* The most nodes of such a graph.
NumCycleNodes == 3

InitCyclic ==
    \E n \in 0..NumCycleNodes :
        \E E \in SUBSET {e \in (1..n) \X (1..n) : e[1] # e[2]} :
            /\ nodes = connect_all(init([i \in 1..n |-> i]), E)
            /\ call = Call("init", <<n>>, TRUE)
            /\ before = new
            /\ iter = NoIter
            /\ seed = {}
            /\ produced = << >>
            /\ snapshot = NoSnapshot

NextCyclic ==
    \/ TraverseWalk
    \/ TraverseSearch
    \/ TraverseIterSearch
    \/ Pull

SpecCyclic == InitCyclic /\ [][NextCyclic]_vars

-----------------------------------------------------------------------------
(* The edge relation, stated on labels, independently of the traversals *)

Present(g, l) == hash(l) \in DOMAIN g

Edge(g, u, v) == Present(g, u) /\ hash(v) \in DOMAIN g[hash(u)].edges

Succ(g, S) == {v \in Labels : \E u \in S : Edge(g, u, v)}

RECURSIVE Closure(_, _)
Closure(g, S) ==
    LET T == S \cup Succ(g, S)
    IN  IF T = S THEN S ELSE Closure(g, T)

\* There is a path of one or more edges from u to v.
Reaches(g, u, v) == v \in Closure(g, Succ(g, {u}))

\* The labels reachable from the labels of S along zero or more edges.
ReachableFrom(g, S) == Closure(g, S)

NoDuplicates(s) == \A i, j \in DOMAIN s : i # j => s[i] # s[j]

NumEdges(g) == Cardinality({e \in Labels \X Labels : Edge(g, e[1], e[2])})

\* The live iterator has returned None.
Exhausted == iter.kind # "none" /\ call.op = "next" /\ ~call.ret.some

-----------------------------------------------------------------------------
(* Claims *)

C3_ConnectAccepts ==
    call.op = "connect" =>
        LET from == call.args[1]
            to   == call.args[2]
            a    == hash(from)
            b    == hash(to)
        IN  (/\ from # to
             /\ Present(before, from)
             /\ Present(before, to)
             /\ ~Reaches(before, to, from))
            => /\ call.ret = TRUE
               /\ DOMAIN nodes = DOMAIN before
               /\ \A k \in DOMAIN nodes : k # a => nodes[k] = before[k]
               /\ nodes[a].label = before[a].label
               /\ DOMAIN nodes[a].edges = (DOMAIN before[a].edges) \cup {b}
               /\ nodes[a].edges[b] = 1
               /\ \A t \in DOMAIN before[a].edges : t # b => nodes[a].edges[t] = before[a].edges[t]
               /\ (Edge(before, from, to) => nodes = before)

\* connect accepted for an edge that was already there, beside another edge.
C3_Witness ==
    /\ call.op = "connect" /\ call.ret = TRUE
    /\ Edge(before, call.args[1], call.args[2])
    /\ NumEdges(nodes) = 2

\* C4 as first stated: disconnect(from, to) returns true exactly when the edge
\* was there and has been removed, and false, changing nothing, when it was not.
C4_TrueIffEdgeRemoved ==
    call.op = "disconnect" =>
        LET from == call.args[1]
            to   == call.args[2]
        IN  /\ call.ret = TRUE <=> (Edge(before, from, to) /\ ~Edge(nodes, from, to))
            /\ ~Edge(before, from, to) => (call.ret = FALSE /\ nodes = before)

\* C4, amended: disconnect(from, to) returns true exactly when both endpoints
\* are in the graph, whether or not the edge was there; afterwards the edge
\* from -> to is absent and nothing else has changed; with an endpoint missing
\* it returns false and the graph is as it was.
C4_TrueIffEndpointsPresent ==
    call.op = "disconnect" =>
        LET from == call.args[1]
            to   == call.args[2]
            a    == hash(from)
            b    == hash(to)
        IN  /\ call.ret = TRUE <=> (Present(before, from) /\ Present(before, to))
            /\ call.ret = FALSE => nodes = before
            /\ ~Edge(nodes, from, to)
            /\ DOMAIN nodes = DOMAIN before
            /\ \A k \in DOMAIN nodes :
                /\ nodes[k].label = before[k].label
                /\ DOMAIN nodes[k].edges =
                      (DOMAIN before[k].edges) \ (IF k = a THEN {b} ELSE {})
                /\ \A t \in DOMAIN nodes[k].edges : nodes[k].edges[t] = before[k].edges[t]

\* disconnect returned true between two present nodes that had no edge.
C4_Witness ==
    /\ call.op = "disconnect" /\ call.ret = TRUE
    /\ call.args[1] # call.args[2]
    /\ ~Edge(before, call.args[1], call.args[2])
    /\ NumEdges(before) = 1

\* C5: remove(label) of a present label takes the node and its outgoing edges
\* out, strips the edge to it from every other node and keeps every other edge.
C5_RemoveStrips ==
    (call.op = "remove" /\ Present(before, call.args[1])) =>
        LET key == hash(call.args[1])
        IN  /\ DOMAIN nodes = (DOMAIN before) \ {key}
            /\ call.ret = Some(before[key])
            /\ \A k \in DOMAIN nodes :
                /\ nodes[k].label = before[k].label
                /\ key \notin DOMAIN nodes[k].edges
                /\ DOMAIN nodes[k].edges = (DOMAIN before[k].edges) \ {key}
                /\ \A t \in DOMAIN nodes[k].edges : nodes[k].edges[t] = before[k].edges[t]

\* The middle node of a chain has been removed: it had an edge in and an edge out.
C5_Witness ==
    /\ call.op = "remove" /\ call.ret.some
    /\ \E u \in Labels : Edge(before, u, call.args[1])
    /\ DOMAIN call.ret.val.edges # {}
    /\ size(nodes) = 2

\* C6: get_adjacent, remove and walk on a label the graph does not hold
\* return the absent result and change nothing, while get_adjacent on a node
\* without edges returns a present, empty set.
C6_AbsentSignalled ==
    /\ (call.op = "get_adjacent" /\ ~Present(before, call.args[1]))
            => (call.ret = None /\ nodes = before)
    /\ (call.op = "get_adjacent" /\ Present(before, call.args[1])
            /\ \A v \in Labels : ~Edge(before, call.args[1], v))
            => (call.ret = Some({}) /\ call.ret # None)
    /\ (call.op = "remove" /\ ~Present(before, call.args[1]))
            => (call.ret = None /\ nodes = before)
    /\ (call.op = "walk" /\ ~Present(before, call.args[1]))
            => (call.ret = FALSE /\ iter = NoIter /\ nodes = before)

\* get_adjacent has been asked about an unknown label of a graph with an edge.
C6_Witness ==
    /\ call.op = "get_adjacent" /\ ~Present(nodes, call.args[1])
    /\ ~call.ret.some
    /\ NumEdges(nodes) = 1

\* C7 as first stated: add(x) followed by remove(x) gives back the graph as it
\* was before add(x), for every graph and every label x.
C7_RoundTripAnyLabel ==
    snapshot.stage = "removed" => nodes = snapshot.graph

\* C7, amended: add(x) followed by remove(x) gives back the graph as it was
\* before add(x), for every graph and every label x the graph did not hold.
C7_RoundTripNewLabel ==
    (snapshot.stage = "removed" /\ ~Present(snapshot.graph, snapshot.label))
        => nodes = snapshot.graph

\* A new label has been added to a graph with an edge and removed again.
C7_Witness ==
    /\ snapshot.stage = "removed"
    /\ ~Present(snapshot.graph, snapshot.label)
    /\ NumEdges(snapshot.graph) = 1
    /\ call.op = "remove" /\ call.ret.some

\* C8: ordering() holds every node exactly once, and for every edge (u, v) it
\* holds u before v; so it starts with a source and ends with a sink.
C8_OrderingTopological ==
    call.op = "ordering" =>
        LET r == call.ret
        IN  /\ Len(r) = size(nodes)
            /\ Range(r) = {l \in Labels : Present(nodes, l)}
            /\ NoDuplicates(r)
            /\ \A i, j \in DOMAIN r : Edge(nodes, r[i], r[j]) => i < j
            /\ Len(r) > 0 =>
                /\ \A u \in Labels : ~Edge(nodes, u, r[1])
                /\ \A v \in Labels : ~Edge(nodes, r[Len(r)], v)

\* The ordering of three nodes, one of which has two predecessors.
C8_Witness ==
    /\ call.op = "ordering" /\ Len(call.ret) = 3
    /\ \E v \in Labels : Cardinality({u \in Labels : Edge(nodes, u, v)}) = 2

\* C9: a walk from a present start label, in either mode, produces no label
\* twice and only labels the start reaches, and when it ends it has produced
\* every label the start reaches (so both modes produce the same set).
C9_WalkReachable ==
    (iter.kind # "none" /\ Cardinality(seed) = 1 /\ \A l \in seed : Present(nodes, l)) =>
        /\ NoDuplicates(produced)
        /\ Range(produced) \subseteq ReachableFrom(nodes, seed)
        /\ Exhausted =>
            /\ Range(produced) = ReachableFrom(nodes, seed)
            /\ Len(produced) = Cardinality(ReachableFrom(nodes, seed))

\* A walk has ended after producing its start and one more label, in a
\* graph of three nodes that holds a node the start does not reach.
C9_Witness ==
    /\ Exhausted /\ iter.kind = "Walk"
    /\ Len(produced) = 2
    /\ size(nodes) = 3
    /\ NumEdges(nodes) = 2

\* C10: a search without a start label is seeded with the nodes that have no
\* incoming edge and produces every node of the graph exactly once.
C10_SearchAll ==
    /\ call.op = "search" =>
        /\ Range(iter.buffer) = {l \in Labels : Present(nodes, l) /\ \A u \in Labels : ~Edge(nodes, u, l)}
        /\ NoDuplicates(iter.buffer)
    /\ (iter.kind = "Walk" /\ seed = sources(nodes)) =>
        /\ NoDuplicates(produced)
        /\ Exhausted =>
            /\ Range(produced) = {l \in Labels : Present(nodes, l)}
            /\ Len(produced) = size(nodes)

\* A search over three nodes, two of them sources, has ended.
C10_Witness ==
    /\ Exhausted /\ iter.kind = "Walk"
    /\ Cardinality(seed) = 2
    /\ size(nodes) = 3
    /\ Len(produced) = 3

-----------------------------------------------------------------------------
(* Weak connectivity, stated on labels, independently of Parts *)

WeakAdj(g, S) == {v \in Labels : \E u \in S : Edge(g, u, v) \/ Edge(g, v, u)}

RECURSIVE WeakClosure(_, _)
WeakClosure(g, S) ==
    LET T == S \cup WeakAdj(g, S)
    IN  IF T = S THEN S ELSE WeakClosure(g, T)

\* The maximal set of nodes connected to l when edge direction is ignored.
WeakComponent(g, l) == WeakClosure(g, {l})

WeakComponents(g) == {WeakComponent(g, l) : l \in iter_labels(g)}

\* The live Parts has returned None.
PartsDrained == iter.kind = "Parts" /\ call.op = "parts_next" /\ ~call.ret.some

\* The keys of the nodes the live Parts has yielded so far.
YieldedKeys == UNION {DOMAIN produced[i] : i \in DOMAIN produced}

\* C11: the components a partition yields have pairwise disjoint node sets,
\* every yielded node is a node of the partitioned graph with the edge set it
\* had there, and once the partition is drained every node of the graph has
\* been yielded.
C11_PartsDisjointCover ==
    iter.kind = "Parts" =>
        /\ \A i \in DOMAIN produced :
              \A k \in DOMAIN produced[i] :
                  k \in DOMAIN nodes /\ produced[i][k] = nodes[k]
        /\ \A i, j \in DOMAIN produced :
              i # j => (DOMAIN produced[i]) \cap (DOMAIN produced[j]) = {}
        /\ PartsDrained => YieldedKeys = DOMAIN nodes

\* A drained partition of a graph of three nodes that yielded two components,
\* one of them holding an edge.
C11_Witness ==
    /\ PartsDrained
    /\ size(nodes) = 3
    /\ Len(produced) = 2
    /\ \E i \in DOMAIN produced : NumEdges(produced[i]) = 1

\* C12: every component a partition yields is a maximal weakly connected set
\* of the partitioned graph (so no edge joins two components), and a drained
\* partition has yielded as many components as the graph has weakly connected
\* components.
C12_PartsWeaklyConnected ==
    iter.kind = "Parts" =>
        /\ \A i \in DOMAIN produced :
              \A l \in iter_labels(produced[i]) :
                  iter_labels(produced[i]) = WeakComponent(nodes, l)
        /\ PartsDrained => Len(produced) = Cardinality(WeakComponents(nodes))

\* C13: a pull of a Parts whose source graph holds nodes yields a component
\* that is not empty and leaves the source graph strictly smaller; a pull
\* yields None only when the source graph is empty.
C13_PartsDrains ==
    [][(iter.kind = "Parts" /\ call'.op = "parts_next")
          => IF DOMAIN iter.graph # {}
             THEN /\ call'.ret.some
                  /\ DOMAIN call'.ret.val # {}
                  /\ DOMAIN iter'.graph \subseteq DOMAIN iter.graph
                  /\ DOMAIN iter'.graph # DOMAIN iter.graph
             ELSE ~call'.ret.some /\ iter'.graph = iter.graph]_vars

\* A partition of three nodes without edges, drained by four pulls.
C13_Witness ==
    /\ PartsDrained
    /\ Len(produced) = 3
    /\ DOMAIN iter.graph = {}
    /\ NumEdges(nodes) = 0

\* C14: sources() is the set of nodes no edge points to, sinks() the set of
\* nodes no edge leaves, and neither is empty when the graph holds a node.
C14_SourcesSinks ==
    /\ call.op = "sources" =>
          /\ call.ret = {l \in Labels : Present(nodes, l)
                                          /\ ~\E u \in Labels : Edge(nodes, u, l)}
          /\ nodes # new => call.ret # {}
    /\ call.op = "sinks" =>
          /\ call.ret = {l \in Labels : Present(nodes, l)
                                          /\ ~\E v \in Labels : Edge(nodes, l, v)}
          /\ nodes # new => call.ret # {}

\* sinks() called on a graph of three nodes and two edges that has one sink.
C14_Witness ==
    /\ call.op = "sinks"
    /\ size(nodes) = 3
    /\ NumEdges(nodes) = 2
    /\ Cardinality(call.ret) = 1

-----------------------------------------------------------------------------
(* Rows and diagram text, stated independently of get_rows and diagram *)

\* The labels of the nodes of g.
NodeLabels(g) == {g[k].label : k \in DOMAIN g}

\* The number of edges of g.
EdgeCount(g) ==
    Cardinality({e \in NodeLabels(g) \X NodeLabels(g) : Edge(g, e[1], e[2])})

\* The labels of the rows, in row order.
RowLabels(rows) == [i \in DOMAIN rows |-> rows[i].label]

\* o lists every node of g once, each edge leading from an earlier to a later one.
TopologicalOrder(g, o) ==
    /\ NoDuplicates(o)
    /\ Range(o) = NodeLabels(g)
    /\ \A i, j \in DOMAIN o : Edge(g, o[i], o[j]) => i < j

\* The columns of row, counted from 0, that stand for label l: the Node slot
\* of the row of l, or a Connector to l.
Columns(row, l) ==
    {c - 1 : c \in {x \in DOMAIN row.elements :
                       \/ row.elements[x] = <<"Node">> /\ row.label = l
                       \/ row.elements[x] = <<"Connector", l>>}}

\* The columns of row that hold its Node slot.
NodeSlots(row) == {c \in DOMAIN row.elements : row.elements[c] = <<"Node">>}

\* The labels some Connector of row points to.
Pending(row) == {el[2] : el \in {x \in Range(row.elements) : x[1] = "Connector"}}

\* The edges drawn between prev and next, as pairs of columns: from every
\* Connector of prev to the column of its label in next, and from the Node
\* slot of prev to the column of every neighbor of prev's label.
Drawn_edges(g, prev, next) ==
    {e \in (0..(Len(prev.elements) - 1)) \X (0..(Len(next.elements) - 1)) :
        \E l \in NodeLabels(g) :
            /\ e[2] \in Columns(next, l)
            /\ \/ prev.elements[e[1] + 1] = <<"Connector", l>>
               \/ prev.elements[e[1] + 1] = <<"Node">> /\ Edge(g, prev.label, l)}

\* The character a connector from column `from` to column `to` is drawn with.
Glyph(from, to) == IF to = from THEN "|" ELSE IF to > from THEN "\\" ELSE "/"

\* The labels whose text occurs in a piece of the diagram.
LabelsIn(g, piece) == {l \in NodeLabels(g) : ToString(l) \in Range(piece)}

\* g is a path graph: its nodes form one chain a -> b -> c ...
IsChain(g) ==
    /\ g # new
    /\ EdgeCount(g) = Cardinality(NodeLabels(g)) - 1
    /\ \A l \in NodeLabels(g) :
          /\ Cardinality({v \in NodeLabels(g) : Edge(g, l, v)}) <= 1
          /\ Cardinality({u \in NodeLabels(g) : Edge(g, u, l)}) <= 1

\* C15: the diagram of a chain has one column, the Node slot, in every row,
\* and between each two consecutive rows a connector line that is a single
\* vertical bar.
C15_ChainSingleBar ==
    (call.op = "diagram" /\ IsChain(nodes)) =>
        /\ call.ret.some
        /\ \A i \in DOMAIN snapshot.rows : snapshot.rows[i].elements = <<<<"Node">>>>
        /\ Len(snapshot.result) = 2 * Len(snapshot.rows) - 1
        /\ \A i \in 1..(Len(snapshot.rows) - 1) : snapshot.result[2 * i] = <<"|">>

\* C16: in the diagram, for each two consecutive rows and each edge drawn
\* between them, the connector block between the rows shows the edge's glyph:
\* a bar when the target column is the same, a backslash when it is greater,
\* a slash when it is less.
C16_ConnectorGlyphs ==
    (call.op = "diagram" /\ call.ret.some) =>
        \A i \in 1..(Len(snapshot.rows) - 1) :
            \A e \in Drawn_edges(nodes, snapshot.rows[i], snapshot.rows[i + 1]) :
                Glyph(e[1], e[2]) \in Range(snapshot.result[2 * i])

C18_RowsOneNodeSlot ==
    call.op = "get_rows" =>
        /\ call.ret.some
        /\ Len(call.ret.val) = Cardinality(NodeLabels(nodes))
        /\ TopologicalOrder(nodes, RowLabels(call.ret.val))
        /\ call.ret.val # << >> => call.ret.val[1].elements = <<<<"Node">>>>
        /\ \A i \in DOMAIN call.ret.val : Cardinality(NodeSlots(call.ret.val[i])) = 1

\* Four rows, the last of them three columns wide.
C18_Witness ==
    /\ call.op = "get_rows"
    /\ call.ret.some
    /\ Len(call.ret.val) = 4
    /\ Len(call.ret.val[4].elements) = 3

\* C19: a Connector(l) of Row(i) names a label whose row comes after Row(i);
\* the row of l holds the Node slot of l and no Connector(l), and no row after
\* it holds a Connector(l).
C19_ConnectorsResolved ==
    (call.op = "get_rows" /\ call.ret.some) =>
        LET rows == call.ret.val
        IN  \A i \in DOMAIN rows :
                \A l \in Pending(rows[i]) :
                    \E j \in DOMAIN rows :
                        /\ j > i
                        /\ rows[j].label = l
                        /\ NodeSlots(rows[j]) # {}
                        /\ \A k \in DOMAIN rows : k >= j => l \notin Pending(rows[k])

\* Rows in which a Connector is carried through a row before the row of its label.
C19_Witness ==
    /\ call.op = "get_rows"
    /\ call.ret.some
    /\ \E i \in DOMAIN call.ret.val :
          /\ i + 2 \in DOMAIN call.ret.val
          /\ call.ret.val[i + 2].label \in Pending(call.ret.val[i])
          /\ call.ret.val[i + 2].label \in Pending(call.ret.val[i + 1])

\* C20: for each two consecutive rows prev and next, the label of every
\* Connector of prev and every neighbor of prev's label has a column in next,
\* and diagram(), which looks these columns up, does not panic on a graph that
\* holds a node.
C20_TargetsResolve ==
    /\ (call.op = "get_rows" /\ call.ret.some) =>
          LET rows == call.ret.val
          IN  \A i \in 1..(Len(rows) - 1) :
                  \A l \in NodeLabels(nodes) \cup Pending(rows[i]) :
                      (l \in Pending(rows[i]) \/ Edge(nodes, rows[i].label, l))
                          => Columns(rows[i + 1], l) # {}
    /\ (call.op = "diagram" /\ nodes # new) => call.ret.some

\* The diagram of three or more nodes of which three are joined by three
\* edges: a row with a Connector and a neighbor to look up in the next row.
C20_Witness ==
    /\ call.op = "diagram"
    /\ call.ret.some
    /\ EdgeCount(nodes) = 3
    /\ \E i \in DOMAIN snapshot.rows :
          /\ Pending(snapshot.rows[i]) # {}
          /\ \E l \in NodeLabels(nodes) : Edge(nodes, snapshot.rows[i].label, l)

\* C21: when Row(i), the row of label L, is built from Row(i-1), every
\* Connector of Row(i-1) to a label other than L is in Row(i) in the same
\* column, and a Connector of Row(i) that is not such an inherited one stands
\* in the column of Row(i-1)'s Node slot or to the right of every inherited
\* Connector.
C21_CarriedInPlace ==
    (call.op = "get_rows" /\ call.ret.some) =>
        LET rows == call.ret.val
        IN  \A i \in 2..Len(rows) :
                LET prev == rows[i - 1]
                    next == rows[i]
                    inherited == {c \in DOMAIN prev.elements :
                                     /\ prev.elements[c][1] = "Connector"
                                     /\ prev.elements[c][2] # next.label}
                IN  /\ \A c \in inherited :
                          c \in DOMAIN next.elements /\ next.elements[c] = prev.elements[c]
                    /\ \A c \in DOMAIN next.elements :
                          (next.elements[c][1] = "Connector" /\ c \notin inherited)
                              => (c \in NodeSlots(prev) \/ \A d \in inherited : c > d)

\* C27: diagram() returns a text for every graph, and for the graph without
\* nodes the empty text.
C27_DiagramNeverFails ==
    call.op = "diagram" =>
        /\ call.ret.some
        /\ nodes = new => call.ret.val = << >>

\* C25: add(x) for a label x the graph holds leaves the same set of nodes, the
\* node of x without outgoing edges and every other node as it was, its edges
\* to x included; and Graph::init from a sequence of labels gives one node
\* without edges per distinct label of the sequence.
C25_AddOverwrites ==
    /\ (call.op = "add" /\ Present(before, call.args[1])) =>
          LET x == call.args[1]
          IN  /\ DOMAIN nodes = DOMAIN before
              /\ nodes[hash(x)].label = x
              /\ DOMAIN nodes[hash(x)].edges = {}
              /\ \A k \in (DOMAIN nodes) \ {hash(x)} : nodes[k] = before[k]
    /\ call.op = "init" =>
          /\ {nodes[k].label : k \in DOMAIN nodes} = Range(call.args[1])
          /\ Cardinality(DOMAIN nodes) = Cardinality(Range(call.args[1]))
          /\ \A k \in DOMAIN nodes : DOMAIN nodes[k].edges = {}

\* add(x) on a node x that had an edge to it and an edge from it.
C25_Witness ==
    /\ call.op = "add"
    /\ Present(before, call.args[1])
    /\ \E u \in Labels : Edge(before, u, call.args[1]) /\ Edge(nodes, u, call.args[1])
    /\ \E v \in Labels : Edge(before, call.args[1], v)

\* C26: whatever add, remove, connect and disconnect calls were made, every
\* edge of every node names the key of a node of the graph, and get_adjacent,
\* indegrees and the edge iterator, which look the key up, do not panic.
C26_NoDanglingEdges ==
    /\ \A k \in DOMAIN nodes : DOMAIN nodes[k].edges \subseteq DOMAIN nodes
    /\ call.op \in {"get_adjacent", "indegrees", "edges"} => call.ret # Panic

\* The edge iterator drained on a graph of two nodes that lost a node and with
\* it an edge, and kept one edge.
C26_Witness ==
    /\ call.op = "edges"
    /\ call.ret.some
    /\ Cardinality(call.ret.val) = 1
    /\ Cardinality(DOMAIN nodes) = 2

-----------------------------------------------------------------------------
(* Traversal order, stated on labels, independently of Walk and Iter *)

\* The labels one edge away from u.
Out(g, u) ==
    IF Present(g, u)
    THEN {g[k].label : k \in (DOMAIN g[hash(u)].edges) \cap DOMAIN g}
    ELSE {}

\* The number of edges of a shortest path from a label of S to x, found layer
\* by layer; -1 when there is no path.
RECURSIVE Layer(_, _, _, _, _)
Layer(g, frontier, seen, x, d) ==
    IF x \in frontier
    THEN d
    ELSE LET next == UNION {Out(g, u) : u \in frontier} \ seen
         IN  IF next = {} THEN -1 ELSE Layer(g, next, seen \cup next, x, d + 1)

Distance(g, S, x) == Layer(g, S, S, x, 0)

\* The labels produced before position i.
Earlier(i) == {produced[j] : j \in 1..(i - 1)}

\* A traversal in the given mode is live or has just ended.
Walking(mode) == iter.kind \in {"Walk", "Iter"} /\ iter.mode = mode

\* C22: in Depth mode, a label produced right after a label that still had a
\* neighbor not produced is one of that label's neighbors, and every label
\* produced that is not a start label comes after one of its predecessors.
C22_DepthFirst ==
    Walking("Depth") =>
        /\ \A i \in 1..(Len(produced) - 1) :
              Out(nodes, produced[i]) \ Earlier(i + 1) # {}
                  => produced[i + 1] \in Out(nodes, produced[i])
        /\ \A i \in DOMAIN produced :
              produced[i] \notin seed
                  => \E u \in Earlier(i) : produced[i] \in Out(nodes, u)

\* C23: in Bredth mode the labels are produced in non-decreasing distance from
\* the start labels.
C23_BreadthFirst ==
    Walking("Bredth") =>
        \A i, j \in DOMAIN produced :
            i < j => Distance(nodes, seed, produced[i]) <= Distance(nodes, seed, produced[j])

\* A walk from one label that has produced the start, its two neighbors and
\* then a label two edges away, which is a neighbor of the first neighbor
\* produced.
C23_Witness ==
    /\ Walking("Bredth")
    /\ Len(produced) = 4
    /\ Cardinality(seed) = 1
    /\ Distance(nodes, seed, produced[2]) = 1
    /\ Distance(nodes, seed, produced[3]) = 1
    /\ Distance(nodes, seed, produced[4]) = 2
    /\ produced[4] \in Out(nodes, produced[2])

\* The labels that can be reached from the labels of S along zero or more edges.
RECURSIVE Reach(_, _)
Reach(g, S) ==
    LET T == S \cup UNION {Out(g, u) : u \in S}
    IN  IF T = S THEN S ELSE Reach(g, T)

\* The graph has a path of one or more edges from a label back to itself.
Cyclic(g) == \E k \in DOMAIN g : g[k].label \in Reach(g, Out(g, g[k].label))

\* What a traversal has produced so far: labels reachable from its start
\* labels, each once; and all of them when it has ended.
C24_Safe ==
    iter.kind \in {"Walk", "Iter"} =>
        /\ NoDuplicates(produced)
        /\ Range(produced) \subseteq Reach(nodes, seed)
        /\ Exhausted => Range(produced) = Reach(nodes, seed)

\* C24: on an adjacency relation with cycles, a traversal from any node ends,
\* and it produces every node that can be reached from the start once and no
\* other label: every pull either produces a label, one that is reachable and
\* was not produced before, or ends the traversal, so there are no more pulls
\* than reachable labels and one.
C24_CyclicSafe ==
    [][iter'.kind \in {"Walk", "Iter"} =>
          /\ C24_Safe'
          /\ call'.op = "next" => (Len(produced') = Len(produced) + 1 \/ Exhausted')]_vars

\* A traversal from a node of a cycle through three nodes has ended, with
\* three labels produced.
C24_Witness ==
    /\ Cyclic(nodes)
    /\ Exhausted
    /\ Len(produced) = 3
    /\ \A x \in Range(produced) : Reach(nodes, Out(nodes, x)) = Range(produced)

=============================================================================
